---- MODULE Spec2Model ----
(***************************************************************************)
(* Funds dashboard: the value parsers and the revenue helper shared by     *)
(* pages/1_Fund_Analysis.py and pages/2_Funds_Comparison.py, the Fund      *)
(* Analysis page run (date filter, rebase, period metrics loop) and        *)
(* calculate_fund_metrics of the Funds Comparison page.                    *)
(*                                                                         *)
(* Texts are sequences of one-character strings.  Parsed numbers are exact *)
(* decimals m * 10^e (binary rounding of Python floats is not modelled).   *)
(* Series values are exact rationals <<n, d>> with the IEEE specials       *)
(* <<0,0>> (NaN), <<1,0>> (+inf) and <<-1,0>> (-inf).                      *)
(***************************************************************************)
EXTENDS Integers, Sequences, FiniteSets, TLC

VARIABLES call, nav_df, page, min_date, max_date, recompute_from_date,
          display_df, period_locals, summary_data, metrics,
          files, session_state, snapshot, selected_fund, all_funds_data,
          bonus_allocations, task_view

\* st.session_state["bonus_allocations"] and what the Bonus Allocation page shows
task_vars == <<bonus_allocations, task_view>>

\* the data files, st.session_state, the data as first loaded (kept for the
\* claims), the fund of the select box and the rows of the comparison tables
session_vars == <<files, session_state, snapshot, selected_fund, all_funds_data, task_vars>>

vars == <<call, nav_df, page, min_date, max_date, recompute_from_date,
          display_df, period_locals, summary_data, metrics, session_vars>>

page_vars_but_session == <<nav_df, page, min_date, max_date, recompute_from_date,
                           display_df, period_locals, summary_data, metrics>>

page_vars == <<nav_df, page, min_date, max_date, recompute_from_date,
               display_df, period_locals, summary_data, metrics, session_vars>>

(***************************************************************************)
(* Bounds of the model.                                                    *)
(***************************************************************************)
MaxStrLen == 3

MaxRevLen == 2

(***************************************************************************)
(* Python values of the parsers: None, a finite float m * 10^e, nan, inf.  *)
(***************************************************************************)
RECURSIVE DecNorm(_, _)
DecNorm(m, e) ==
    IF m = 0 THEN [k |-> "float", m |-> 0, e |-> 0]
    ELSE IF m % 10 = 0 THEN DecNorm(m \div 10, e + 1)
    ELSE [k |-> "float", m |-> m, e |-> e]

PyNone == [k |-> "None", m |-> 0, e |-> 0]

PyNaN == [k |-> "nan", m |-> 0, e |-> 0]

PyInf(sgn) == [k |-> "inf", m |-> sgn, e |-> 0]

Sign(n) == IF n > 0 THEN 1 ELSE IF n < 0 THEN -1 ELSE 0

\* a * b on Python floats
FMul(a, b) ==
    IF a.k = "nan" \/ b.k = "nan" THEN PyNaN
    ELSE IF a.k = "inf" \/ b.k = "inf"
         THEN IF a.m = 0 \/ b.m = 0 THEN PyNaN ELSE PyInf(Sign(a.m) * Sign(b.m))
    ELSE DecNorm(a.m * b.m, a.e + b.e)

\* a * 10^p (p may be negative): the factors 1e6, 1e9, 1e3 and the division by 100.0
FScale(a, p) ==
    IF a.k = "float" THEN DecNorm(a.m, a.e + p) ELSE a

(***************************************************************************)
(* Text helpers: str.strip, str.upper, str.replace, re.sub, `in`.          *)
(***************************************************************************)
Digits == {"0", "1", "2", "3", "4", "5", "6", "7", "8", "9"}

DigitVal(c) ==
    CASE c = "0" -> 0 [] c = "1" -> 1 [] c = "2" -> 2 [] c = "3" -> 3
      [] c = "4" -> 4 [] c = "5" -> 5 [] c = "6" -> 6 [] c = "7" -> 7
      [] c = "8" -> 8 [] c = "9" -> 9

UpperChar(c) ==
    CASE c = "m" -> "M" [] c = "b" -> "B" [] c = "k" -> "K" [] c = "n" -> "N"
      [] c = "a" -> "A" [] c = "i" -> "I" [] c = "f" -> "F" [] c = "t" -> "T"
      [] c = "y" -> "Y" [] OTHER -> c

upper(s) == [i \in 1..Len(s) |-> UpperChar(s[i])]

RECURSIVE StripLeft(_)
StripLeft(s) == IF s # <<>> /\ Head(s) = " " THEN StripLeft(Tail(s)) ELSE s

RECURSIVE StripRight(_)
StripRight(s) ==
    IF s # <<>> /\ s[Len(s)] = " " THEN StripRight(SubSeq(s, 1, Len(s) - 1)) ELSE s

strip(s) == StripRight(StripLeft(s))

Contains(s, c) == \E i \in 1..Len(s) : s[i] = c

IsDigitOrDot(c) == c \in Digits \cup {"."}

\* re.sub(r'[^\d.]', '', s)
re_sub_non_digit(s) == SelectSeq(s, IsDigitOrDot)

IsNotPercent(c) == c # "%"

\* s.replace('%', '').replace(',', '.')
replace_percent_comma(s) ==
    LET t == SelectSeq(s, IsNotPercent)
    IN  [i \in 1..Len(t) |-> IF t[i] = "," THEN "." ELSE t[i]]

IsDigit(c) == c \in Digits

RECURSIVE DigitsToInt(_)
DigitsToInt(s) ==
    IF s = <<>> THEN 0
    ELSE 10 * DigitsToInt(SubSeq(s, 1, Len(s) - 1)) + DigitVal(s[Len(s)])

(***************************************************************************)
(* float(text): surrounding whitespace and one sign are accepted, then     *)
(* "nan", "inf", "infinity" in any case, or digits with at most one dot    *)
(* and at least one digit.  Anything else raises ValueError.  (Exponents   *)
(* and digit-group underscores are outside the alphabet of the model.)     *)
(***************************************************************************)
float_text(s) ==
    LET t    == strip(s)
        sgn  == IF t # <<>> /\ Head(t) = "-" THEN -1 ELSE 1
        body == IF t # <<>> /\ Head(t) \in {"+", "-"} THEN Tail(t) ELSE t
        up   == upper(body)
        dots == {i \in 1..Len(body) : body[i] = "."}
        ds   == SelectSeq(body, IsDigit)
        frac == IF dots = {} THEN 0
                ELSE Len(body) - (CHOOSE i \in dots : TRUE)
    IN  IF up = <<"N", "A", "N">> THEN [exc |-> "none", val |-> PyNaN]
        ELSE IF up = <<"I", "N", "F">>
                \/ up = <<"I", "N", "F", "I", "N", "I", "T", "Y">>
             THEN [exc |-> "none", val |-> PyInf(sgn)]
        ELSE IF /\ \A i \in 1..Len(body) : IsDigitOrDot(body[i])
                /\ Cardinality(dots) <= 1
                /\ ds # <<>>
             THEN [exc |-> "none", val |-> DecNorm(sgn * DigitsToInt(ds), 0 - frac)]
        ELSE [exc |-> "ValueError", val |-> PyNone]

(***************************************************************************)
(* Cell values handed to the parsers: a text, a number, or a missing cell  *)
(* (None / NaN, for which pd.isna is true).                                *)
(***************************************************************************)
Text(s) == [kind |-> "text", s |-> s, v |-> PyNone]

Number(m, e) == [kind |-> "number", s |-> <<>>, v |-> DecNorm(m, e)]

Missing == [kind |-> "missing", s |-> <<>>, v |-> PyNone]

\* no helper call is in progress
NoResult == [exc |-> "none", val |-> PyNone]

NoCall == [fn |-> "none", a |-> Missing, f |-> Missing, result |-> NoResult]

\* no data files and nothing in st.session_state
NoFiles == [funds |-> <<>>, csv |-> <<>>]

NoSession == [has |-> FALSE, funds_list |-> <<>>, nav_dfs |-> <<>>]

NoAllocations == [has |-> FALSE, df |-> <<>>]

NoView == [event |-> "none"]

IdleTask == bonus_allocations = NoAllocations /\ task_view = NoView

IdleSession ==
    /\ files = NoFiles
    /\ session_state = NoSession
    /\ snapshot = NoSession
    /\ selected_fund = ""
    /\ all_funds_data = <<>>
    /\ IdleTask

RECURSIVE IntToText(_)
IntToText(n) ==
    LET d == <<"0", "1", "2", "3", "4", "5", "6", "7", "8", "9">>
    IN  IF n < 10 THEN <<d[n + 1]>> ELSE Append(IntToText(n \div 10), d[(n % 10) + 1])

RECURSIVE Zeros(_)
Zeros(n) == IF n <= 0 THEN <<>> ELSE <<"0">> \o Zeros(n - 1)

\* str(x): a text is itself; a non-negative number prints its decimal expansion
str(x) ==
    IF x.kind = "text" THEN x.s
    ELSE IF x.v.e >= 0 THEN IntToText(x.v.m) \o Zeros(x.v.e)
    ELSE LET ds == IntToText(x.v.m)
             p  == Zeros((0 - x.v.e) + 1 - Len(ds)) \o ds
         IN  SubSeq(p, 1, Len(p) + x.v.e) \o <<".">> \o SubSeq(p, Len(p) + x.v.e + 1, Len(p))

\* float(x) of a cell value
float(x) ==
    IF x.kind = "text" THEN float_text(x.s)
    ELSE IF x.kind = "number" THEN [exc |-> "none", val |-> x.v]
    ELSE [exc |-> "TypeError", val |-> PyNone]

\* pd.isna(x) or x == 'N/A' or x == ''
is_na_or_empty(x) ==
    \/ x.kind = "missing"
    \/ x.kind = "text" /\ x.s = <<"N", "/", "A">>
    \/ x.kind = "text" /\ x.s = <<>>

\* the branch `number_str = re.sub(...); if number_str: return float(number_str) * 1eP`;
\* with an empty number_str the function falls off its end and returns None
unit_branch(aum_str, p) ==
    LET number_str == re_sub_non_digit(aum_str)
        f == float_text(number_str)
    IN  IF number_str = <<>> THEN [exc |-> "none", val |-> PyNone]
        ELSE IF f.exc # "none" THEN f
        ELSE [exc |-> "none", val |-> FScale(f.val, p)]

\* the mutant checks the unit letters in the order B, M, K
parse_aum_try_BMK(aum_value) ==
    LET aum_str == upper(strip(str(aum_value)))
    IN  IF Contains(aum_str, "B") THEN unit_branch(aum_str, 9)
        ELSE IF Contains(aum_str, "M") THEN unit_branch(aum_str, 6)
        ELSE IF Contains(aum_str, "K") THEN unit_branch(aum_str, 3)
        ELSE float(aum_value)

\* the try block of parse_aum
parse_aum_try(aum_value) ==
    LET aum_str == upper(strip(str(aum_value)))
    IN  IF Contains(aum_str, "M") THEN unit_branch(aum_str, 6)
        ELSE IF Contains(aum_str, "B") THEN unit_branch(aum_str, 9)
        ELSE IF Contains(aum_str, "K") THEN unit_branch(aum_str, 3)
        ELSE float(aum_value)

\* except (ValueError, TypeError): return None
except_value_type(r) ==
    IF r.exc \in {"ValueError", "TypeError"} THEN [exc |-> "none", val |-> PyNone] ELSE r

parse_aum(aum_value) ==
    IF is_na_or_empty(aum_value) THEN [exc |-> "none", val |-> PyNone]
    ELSE except_value_type(parse_aum_try(aum_value))

\* the mutant forgets the division by 100.0
parse_fees_try_no_div(fees_value) ==
    float_text(replace_percent_comma(strip(str(fees_value))))

\* the try block of parse_fees
parse_fees_try(fees_value) ==
    LET fees_str == replace_percent_comma(strip(str(fees_value)))
        f == float_text(fees_str)
    IN  IF f.exc # "none" THEN f ELSE [exc |-> "none", val |-> FScale(f.val, -2)]

parse_fees(fees_value) ==
    IF is_na_or_empty(fees_value) THEN [exc |-> "none", val |-> PyNone]
    ELSE except_value_type(parse_fees_try(fees_value))

calculate_revenue(aum_value, fees_value) ==
    LET aum  == parse_aum(aum_value)
        fees == parse_fees(fees_value)
    IN  IF aum.exc # "none" THEN aum
        ELSE IF fees.exc # "none" THEN fees
        ELSE IF aum.val.k # "None" /\ fees.val.k # "None"
             THEN [exc |-> "none", val |-> FMul(aum.val, fees.val)]
        ELSE [exc |-> "none", val |-> PyNone]

(***************************************************************************)
(* Numbers of the series: rationals <<n, d>> in lowest terms with d > 0,   *)
(* and the IEEE specials NaN = <<0,0>>, +inf = <<1,0>>, -inf = <<-1,0>>.   *)
(***************************************************************************)
NaN == <<0, 0>>

Abs(n) == IF n < 0 THEN 0 - n ELSE n

RECURSIVE GCD(_, _)
GCD(a, b) == IF b = 0 THEN a ELSE GCD(b, a % b)

QNorm(n, d) ==
    IF d = 0 THEN <<Sign(n), 0>>
    ELSE LET g == GCD(Abs(n), Abs(d))
         IN  <<Sign(d) * (n \div g), Sign(d) * (d \div g)>>

Q(n) == <<n, 1>>

IsNaN(a) == a = NaN

IsInf(a) == a[2] = 0 /\ a[1] # 0

QAdd(a, b) ==
    IF IsNaN(a) \/ IsNaN(b) THEN NaN
    ELSE IF IsInf(a) /\ IsInf(b) THEN (IF a = b THEN a ELSE NaN)
    ELSE IF IsInf(a) THEN a
    ELSE IF IsInf(b) THEN b
    ELSE LET l == (a[2] \div GCD(a[2], b[2])) * b[2]
         IN  QNorm(a[1] * (l \div a[2]) + b[1] * (l \div b[2]), l)

QSub(a, b) == QAdd(a, <<0 - b[1], b[2]>>)

QMul(a, b) ==
    IF IsNaN(a) \/ IsNaN(b) THEN NaN
    ELSE IF IsInf(a) \/ IsInf(b)
         THEN (IF a[1] = 0 \/ b[1] = 0 THEN NaN ELSE <<Sign(a[1]) * Sign(b[1]), 0>>)
    ELSE LET g1 == GCD(Abs(a[1]), b[2])
             g2 == GCD(Abs(b[1]), a[2])
         IN  QNorm((a[1] \div g1) * (b[1] \div g2), (a[2] \div g2) * (b[2] \div g1))

\* a / b as numpy divides floats: x/0 is +-inf, 0/0 is NaN
QDiv(a, b) ==
    IF IsNaN(a) \/ IsNaN(b) THEN NaN
    ELSE IF IsInf(b) THEN (IF IsInf(a) THEN NaN ELSE Q(0))
    ELSE IF b[1] = 0 THEN (IF a[1] = 0 THEN NaN ELSE <<Sign(a[1]), 0>>)
    ELSE QMul(a, <<Sign(b[1]) * b[2], Abs(b[1])>>)

\* a > b; every comparison with NaN is false
QGt(a, b) ==
    IF IsNaN(a) \/ IsNaN(b) THEN FALSE
    ELSE IF IsInf(a) THEN a[1] = 1 /\ b # a
    ELSE IF IsInf(b) THEN b[1] = -1
    ELSE a[1] * b[2] > b[1] * a[2]

QLe(a, b) == ~IsNaN(a) /\ ~IsNaN(b) /\ ~QGt(a, b)

(***************************************************************************)
(* Float expressions.  A result that is a rational is kept exactly; a      *)
(* square root or a fractional power is kept as the expression the code    *)
(* evaluates.  Equal expressions denote equal floats.                      *)
(***************************************************************************)
VQ(a) == [t |-> "q", q |-> a]

VNaN == VQ(NaN)

VIsQ(v) == v.t = "q"

VIsNaN(v) == v = VNaN

\* value ** 0.5 of a variance, np.sqrt(252)
VSqrt(v) ==
    IF VIsQ(v) /\ (IsNaN(v.q) \/ IsInf(v.q) \/ v.q[1] = 0) THEN v
    ELSE [t |-> "sqrt", x |-> v]

\* base ** exponent for a base > 0
VPow(b, x) ==
    IF VIsNaN(b) \/ VIsNaN(x) THEN VNaN
    ELSE IF b = VQ(Q(1)) \/ x = VQ(Q(1)) THEN b
    ELSE [t |-> "pow", b |-> b, x |-> x]

VAdd(l, r) ==
    IF VIsQ(l) /\ VIsQ(r) THEN VQ(QAdd(l.q, r.q))
    ELSE IF VIsNaN(l) \/ VIsNaN(r) THEN VNaN
    ELSE [t |-> "add", l |-> l, r |-> r]

VSub(l, r) ==
    IF VIsQ(l) /\ VIsQ(r) THEN VQ(QSub(l.q, r.q))
    ELSE IF VIsNaN(l) \/ VIsNaN(r) THEN VNaN
    ELSE IF l = r THEN VQ(Q(0))
    ELSE [t |-> "sub", l |-> l, r |-> r]

VMul(l, r) ==
    IF VIsQ(l) /\ VIsQ(r) THEN VQ(QMul(l.q, r.q))
    ELSE IF VIsNaN(l) \/ VIsNaN(r) THEN VNaN
    ELSE IF l = VQ(Q(0)) \/ r = VQ(Q(0)) THEN VQ(Q(0))
    ELSE [t |-> "mul", l |-> l, r |-> r]

VDiv(l, r) ==
    IF VIsQ(l) /\ VIsQ(r) THEN VQ(QDiv(l.q, r.q))
    ELSE IF VIsNaN(l) \/ VIsNaN(r) THEN VNaN
    ELSE IF l = VQ(Q(0)) THEN VQ(Q(0))
    ELSE [t |-> "div", l |-> l, r |-> r]

\* v > 0 for a rational, a root, a power or a product of those
RECURSIVE VGt0(_)
VGt0(v) ==
    CASE v.t = "q"    -> QGt(v.q, Q(0))
      [] v.t = "sqrt" -> TRUE
      [] v.t = "pow"  -> TRUE
      [] v.t = "mul"  -> VGt0(v.l) /\ VGt0(v.r)

\* a finite float: not NaN, not infinite
RECURSIVE VIsFinite(_)
VIsFinite(v) ==
    CASE v.t = "q"    -> v.q[2] # 0
      [] v.t = "sqrt" -> VIsFinite(v.x)
      [] v.t = "pow"  -> VIsFinite(v.b) /\ VIsFinite(v.x)
      [] OTHER        -> VIsFinite(v.l) /\ VIsFinite(v.r)

\* the cell text 'N/A' of a summary row, and f'{v:.2f}' (the text 'nan' for NaN)
NA == [t |-> "N/A"]

Fmt2(v) == [t |-> "text", of |-> v]

(***************************************************************************)
(* Dates are written year * 100 + day of the year, so that they order as   *)
(* ISO date texts and as Timestamps do.  The calendar of the model holds   *)
(* the first day of year 0, the last day of year 4 and two days of year 5. *)
(***************************************************************************)
MaxLen == 3

TradingDays == 252

NaT == 0 - 1

CalendarDates == {1, 402, 501, 502}

NavVals == {100, 110}

YearOf(d) == d \div 100

\* current_date.replace(month=1, day=1)
replace_jan1(d) == IF d = NaT THEN NaT ELSE YearOf(d) * 100 + 1

\* current_date - pd.DateOffset(years=n)
minus_years(d, n) == IF d = NaT THEN NaT ELSE d - n * 100

\* date >= start_date; every comparison with NaT is false
GeDate(d, start) == start # NaT /\ d >= start

(***************************************************************************)
(* Data frames are sequences of rows.                                      *)
(***************************************************************************)
\* a column or frame built row by row, as a sequence
Tup(f) == f \o <<>>

Column(df, c) == Tup([i \in 1..Len(df) |-> df[i][c]])

RECURSIVE date_max(_)
date_max(df) ==
    IF df = <<>> THEN NaT
    ELSE LET m == date_max(Tail(df))
         IN  IF m = NaT \/ Head(df).date > m THEN Head(df).date ELSE m

RECURSIVE date_min(_)
date_min(df) ==
    IF df = <<>> THEN NaT
    ELSE LET m == date_min(Tail(df))
         IN  IF m = NaT \/ Head(df).date < m THEN Head(df).date ELSE m

RECURSIVE InsertByDate(_, _)
InsertByDate(row, df) ==
    IF df = <<>> THEN <<row>>
    ELSE IF row.date < Head(df).date THEN <<row>> \o df
    ELSE <<Head(df)>> \o InsertByDate(row, Tail(df))

\* df.sort_values(by="date")
RECURSIVE sort_values(_)
sort_values(df) ==
    IF df = <<>> THEN <<>>
    ELSE InsertByDate(df[Len(df)], sort_values(SubSeq(df, 1, Len(df) - 1)))

\* df[df["date"] >= lo] then df[df["date"] <= hi]
filter_dates(df, lo, hi) ==
    LET keep(row) == row.date >= lo /\ row.date <= hi
    IN  SelectSeq(df, keep)

\* Series.pct_change(): NaN for the first row, v[t]/v[t-1] - 1 after it
pct_change(v) ==
    Tup([i \in 1..Len(v) |-> IF i = 1 THEN NaN ELSE QSub(QDiv(v[i], v[i - 1]), Q(1))])

\* Series.cumprod(): the running product that skips NaN entries, which stay NaN
RECURSIVE ProdSkipNaN(_)
ProdSkipNaN(v) ==
    IF v = <<>> THEN Q(1)
    ELSE LET rest == ProdSkipNaN(SubSeq(v, 1, Len(v) - 1))
         IN  IF IsNaN(v[Len(v)]) THEN rest ELSE QMul(rest, v[Len(v)])

cumprod(v) ==
    Tup([i \in 1..Len(v) |-> IF IsNaN(v[i]) THEN NaN ELSE ProdSkipNaN(SubSeq(v, 1, i))])

RECURSIVE QSum(_)
QSum(v) == IF v = <<>> THEN Q(0) ELSE QAdd(Head(v), QSum(Tail(v)))

IsNotNaN(a) == ~IsNaN(a)

\* Series.std(): the sample standard deviation (ddof = 1) of the entries that are
\* not NaN; NaN when fewer than two of them remain
std(v) ==
    LET xs   == SelectSeq(v, IsNotNaN)
        n    == Len(xs)
        mean == QDiv(QSum(xs), Q(n))
        sq   == Tup([i \in 1..n |-> QMul(QSub(xs[i], mean), QSub(xs[i], mean))])
    IN  IF n < 2 THEN VNaN ELSE VSqrt(VQ(QDiv(QSum(sq), Q(n - 1))))

(***************************************************************************)
(* Fund Analysis: the rebase block ("Recompute from Startdate").           *)
(***************************************************************************)
\* display_df.loc[display_df["date"] == min_date, col] = 100
set_base_at(df, v, d) == Tup([i \in 1..Len(v) |-> IF df[i].date = d THEN Q(100) ELSE v[i]])

\* one column of the rebase block: pct_change() + 1, the base of 100 written on
\* the rows dated min_date, then cumprod()
rebase_column(df, c, d) ==
    LET ret == pct_change(Column(df, c))
        one == Tup([i \in 1..Len(ret) |-> QAdd(ret[i], Q(1))])
    IN  cumprod(set_base_at(df, one, d))

rebase(df, d) ==
    LET nav   == rebase_column(df, "nav", d)
        bench == rebase_column(df, "bench", d)
    IN  Tup([i \in 1..Len(df) |-> [date |-> df[i].date, nav |-> nav[i], bench |-> bench[i]]])

build_display_df(df, d, recompute) == IF recompute THEN rebase(df, d) ELSE df

(***************************************************************************)
(* calc_df: the frame sorted by date with the daily return columns, which  *)
(* both pages compute on the whole frame before any period is cut out.     *)
(***************************************************************************)
build_calc_df(frame) ==
    LET df == sort_values(frame)
        fr == pct_change(Column(df, "nav"))
        br == pct_change(Column(df, "bench"))
    IN  Tup([i \in 1..Len(df) |->
            [date |-> df[i].date, nav |-> df[i].nav, bench |-> df[i].bench,
             fund_returns |-> fr[i], bench_returns |-> br[i],
             excess_returns |-> QSub(fr[i], br[i])]])

\* calc_df[calc_df['date'] >= start_date]
period_df_of(calc_df, start_date) ==
    LET keep(row) == GeDate(row.date, start_date)
    IN  SelectSeq(calc_df, keep)

\* the mutant recomputes the daily returns inside the period
period_returns_in_window(period_df, c) ==
    pct_change(Column(period_df, IF c = "fund_returns" THEN "nav" ELSE "bench"))

\* period_df['fund_returns'], period_df['bench_returns']: the returns computed on calc_df
period_returns(period_df, c) == Column(period_df, c)

\* the mutant floors the year count at 1.0
years_of_floor_one(trading_days) ==
    LET y == QNorm(trading_days, TradingDays)
    IN  IF QLe(y, Q(1)) THEN Q(1) ELSE y

\* years = trading_days / 252.0; if years <= 0: years = 1.0
years_of(trading_days) ==
    LET y == QNorm(trading_days, TradingDays)
    IN  IF QLe(y, Q(0)) THEN Q(1) ELSE y

\* std() * np.sqrt(252) * 100
volatility(returns) == VMul(VMul(std(returns), VSqrt(VQ(Q(TradingDays)))), VQ(Q(100)))

\* ((last / first) - 1) * 100
total_return(first, last) == VMul(VSub(VQ(QDiv(last, first)), VQ(Q(1))), VQ(Q(100)))

\* ((last / first) ** (1/years) - 1) * 100
annualized_return(first, last, years) ==
    VMul(VSub(VPow(VQ(QDiv(last, first)), VQ(QDiv(Q(1), years))), VQ(Q(1))), VQ(Q(100)))

\* the mutant annualizes every period, the year-to-date one included
performance_always_annualized(period_name, first, last, years) ==
    IF QGt(first, Q(0)) /\ QGt(last, Q(0))
    THEN annualized_return(first, last, years)
    ELSE VQ(Q(0))

\* the mutant computes the return whatever the sign of the first and last values
performance_no_guard(period_name, first, last, years) ==
    IF period_name = "YTD" THEN total_return(first, last)
    ELSE annualized_return(first, last, years)

\* fund_perf / bench_perf of the Fund Analysis loop
performance(period_name, first, last, years) ==
    IF QGt(first, Q(0)) /\ QGt(last, Q(0))
    THEN IF period_name = "YTD" THEN total_return(first, last)
         ELSE annualized_return(first, last, years)
    ELSE VQ(Q(0))

\* the mutant lets a period of a single row through
too_short_below_one(period_df) == Len(period_df) < 1

\* if len(period_df) < 2
too_short(period_df) == Len(period_df) < 2

\* the mutant subtracts the fund volatility from the benchmark's
tracking_error_reversed(fund_vol, bench_vol) == VSub(bench_vol, fund_vol)

\* tracking_error = fund_vol - bench_vol
tracking_error_of(fund_vol, bench_vol) == VSub(fund_vol, bench_vol)

(***************************************************************************)
(* Fund Analysis: one pass of the period metrics loop.  The record holds   *)
(* the local variables of the pass.                                        *)
(***************************************************************************)
analysis_period(calc_df, period_name, start_date) ==
    LET period_df == period_df_of(calc_df, start_date)
    IN  IF too_short(period_df)
        THEN [Period |-> period_name, start_date |-> start_date, na |-> TRUE,
              trading_days |-> Len(period_df)]
        ELSE
        LET trading_days == Len(period_df)
            years      == years_of(trading_days)
            fund_vol   == volatility(period_returns(period_df, "fund_returns"))
            bench_vol  == volatility(period_returns(period_df, "bench_returns"))
            nav0       == period_df[1].nav
            nav1       == period_df[trading_days].nav
            bench0     == period_df[1].bench
            bench1     == period_df[trading_days].bench
            fund_perf  == performance(period_name, nav0, nav1, years)
            bench_perf == performance(period_name, bench0, bench1, years)
            fund_perf_annualized ==
                IF QGt(nav0, Q(0)) /\ QGt(nav1, Q(0))
                THEN annualized_return(nav0, nav1, years)
                ELSE VQ(Q(0))
            sharpe_ratio ==
                IF VGt0(fund_vol)
                THEN VDiv(VDiv(fund_perf_annualized, VQ(Q(100))), VDiv(fund_vol, VQ(Q(100))))
                ELSE VQ(Q(0))
        IN  [Period |-> period_name, start_date |-> start_date, na |-> FALSE,
             trading_days |-> trading_days, years |-> years,
             fund_vol |-> fund_vol, bench_vol |-> bench_vol,
             fund_perf |-> fund_perf, bench_perf |-> bench_perf,
             tracking_error |-> tracking_error_of(fund_vol, bench_vol),
             fund_perf_annualized |-> fund_perf_annualized,
             sharpe_ratio |-> sharpe_ratio]

\* summary_data.append({...})
summary_row(loc) ==
    IF loc.na
    THEN [Period |-> loc.Period, fund_vol |-> NA, bench_vol |-> NA, fund_perf |-> NA,
          bench_perf |-> NA, tracking_error |-> NA, sharpe_ratio |-> NA]
    ELSE [Period |-> loc.Period,
          fund_vol |-> Fmt2(loc.fund_vol), bench_vol |-> Fmt2(loc.bench_vol),
          fund_perf |-> Fmt2(loc.fund_perf), bench_perf |-> Fmt2(loc.bench_perf),
          tracking_error |-> Fmt2(loc.tracking_error),
          sharpe_ratio |-> Fmt2(loc.sharpe_ratio)]

\* periods = {'YTD': ..., '3Y': ..., '5Y': ...}
analysis_periods(current_date) ==
    << [name |-> "YTD", start |-> replace_jan1(current_date)],
       [name |-> "3Y",  start |-> minus_years(current_date, 3)],
       [name |-> "5Y",  start |-> minus_years(current_date, 5)] >>

\* the mutant anchors the periods on the latest day of the calendar
analysis_loop_global_date(calc_df) ==
    LET today   == CHOOSE d \in CalendarDates : \A x \in CalendarDates : x <= d
        periods == analysis_periods(today)
    IN  Tup([i \in 1..Len(periods) |-> analysis_period(calc_df, periods[i].name, periods[i].start)])

\* the loop `for period_name, start_date in periods.items()`
analysis_loop(calc_df) ==
    LET periods == analysis_periods(date_max(calc_df))
    IN  Tup([i \in 1..Len(periods) |-> analysis_period(calc_df, periods[i].name, periods[i].start)])

(***************************************************************************)
(* Funds Comparison: calculate_fund_metrics.                               *)
(***************************************************************************)
\* the mutant takes the total return of the period
comparison_performance_total(first, last, years) ==
    IF QGt(first, Q(0)) /\ QGt(last, Q(0)) THEN total_return(first, last) ELSE VQ(Q(0))

\* fund_perf / bench_perf of calculate_fund_metrics: annualized for every period
comparison_performance(first, last, years) ==
    IF QGt(first, Q(0)) /\ QGt(last, Q(0))
    THEN annualized_return(first, last, years)
    ELSE VQ(Q(0))

comparison_period(calc_df, period_name, years_offset) ==
    LET start_date == minus_years(date_max(calc_df), years_offset)
        period_df  == period_df_of(calc_df, start_date)
    IN  IF too_short(period_df)
        THEN [Period |-> period_name, start_date |-> start_date, na |-> TRUE,
              trading_days |-> Len(period_df)]
        ELSE
        LET trading_days == Len(period_df)
            years      == years_of(trading_days)
            nav0       == period_df[1].nav
            nav1       == period_df[trading_days].nav
            bench0     == period_df[1].bench
            bench1     == period_df[trading_days].bench
            fund_perf  == comparison_performance(nav0, nav1, years)
            bench_perf == comparison_performance(bench0, bench1, years)
        IN  [Period |-> period_name, start_date |-> start_date, na |-> FALSE,
             trading_days |-> trading_days, years |-> years,
             fund_perf |-> fund_perf, bench_perf |-> bench_perf,
             excess_return |-> VSub(fund_perf, bench_perf),
             fund_vol |-> volatility(period_returns(period_df, "fund_returns"))]

\* metrics[period_name] = {...}
metrics_entry(loc) ==
    IF loc.na
    THEN [Period |-> loc.Period, perf |-> NA, excess_return |-> NA, volatility |-> NA]
    ELSE [Period |-> loc.Period, perf |-> loc.fund_perf,
          excess_return |-> loc.excess_return, volatility |-> loc.fund_vol]

\* periods = {'1Y': 1, '3Y': 3}
comparison_periods == << [name |-> "1Y", years |-> 1], [name |-> "3Y", years |-> 3] >>

calculate_fund_metrics(frame) ==
    LET calc_df == build_calc_df(frame)
    IN  Tup([i \in 1..Len(comparison_periods) |->
            comparison_period(calc_df, comparison_periods[i].name, comparison_periods[i].years)])

(***************************************************************************)
(* The session and the page runs.                                          *)
(***************************************************************************)
Points(d) == {[date |-> d, nav |-> Q(n), bench |-> Q(b)] : n \in NavVals, b \in NavVals}

\* the series of at most n rows dated after d0, in date order
RECURSIVE SeriesAfter(_, _)
SeriesAfter(d0, n) ==
    IF n = 0 THEN {<<>>}
    ELSE {<<>>} \cup
         UNION { UNION { {<<pt>> \o rest : rest \in SeriesAfter(d, n - 1)} : pt \in Points(d) }
                 : d \in {x \in CalendarDates : x > d0} }

SessionSeries == SeriesAfter(0, MaxLen) \ {<<>>}

\* the script of the Fund Analysis page from `df = st.session_state["nav_dfs"][...]`
\* on, for the widget values lo, hi and recompute
fund_analysis_script(frame, lo, hi, recompute) ==
    LET df   == sort_values(filter_dates(frame, lo, hi))
        disp == build_display_df(df, lo, recompute)
        loop == analysis_loop(build_calc_df(disp))
    IN  [display_df |-> disp, period_locals |-> loop,
         summary_data |-> Tup([i \in 1..Len(loop) |-> summary_row(loop[i])])]

\* a run of the page script with the widget values lo, hi and recompute
run_fund_analysis(lo, hi, recompute) ==
    \E out \in {fund_analysis_script(nav_df, lo, hi, recompute)} :
        /\ min_date' = lo
        /\ max_date' = hi
        /\ recompute_from_date' = recompute
        /\ display_df' = out.display_df
        /\ period_locals' = out.period_locals
        /\ summary_data' = out.summary_data
        /\ page' = "analysis"
        /\ metrics' = <<>>
        /\ UNCHANGED <<call, nav_df, session_vars>>

\* the dates the two date inputs offer: min_value .. max_value
Selectable(d) == d \in CalendarDates /\ date_min(nav_df) <= d /\ d <= date_max(nav_df)

\* the page is opened: the widgets take their default values
OpenFundAnalysis ==
    /\ page # "analysis"
    /\ run_fund_analysis(date_min(nav_df), date_max(nav_df), FALSE)

\* "Select a start date" is changed and the script reruns
ChangeStartDate ==
    /\ page = "analysis"
    /\ \E lo \in CalendarDates :
          /\ Selectable(lo)
          /\ lo # min_date
          /\ run_fund_analysis(lo, max_date, recompute_from_date)

\* "Select an end date" is changed and the script reruns
ChangeEndDate ==
    /\ page = "analysis"
    /\ \E hi \in CalendarDates :
          /\ Selectable(hi)
          /\ hi # max_date
          /\ run_fund_analysis(min_date, hi, recompute_from_date)

\* "Recompute from Startdate" is ticked or unticked and the script reruns
ToggleRecompute ==
    /\ page = "analysis"
    /\ run_fund_analysis(min_date, max_date, ~recompute_from_date)

\* a run of the Funds Comparison page
OpenFundsComparison ==
    /\ page # "comparison"
    /\ \E loop \in {calculate_fund_metrics(nav_df)} :
          /\ period_locals' = loop
          /\ metrics' = [i \in 1..Len(loop) |-> metrics_entry(loop[i])]
    /\ page' = "comparison"
    /\ min_date' = 0
    /\ max_date' = 0
    /\ recompute_from_date' = FALSE
    /\ display_df' = <<>>
    /\ summary_data' = <<>>
    /\ UNCHANGED <<call, nav_df, session_vars>>

InitPages ==
    /\ call = NoCall
    /\ IdleSession
    /\ nav_df \in SessionSeries
    /\ page = "none"
    /\ min_date = 0
    /\ max_date = 0
    /\ recompute_from_date = FALSE
    /\ display_df = <<>>
    /\ period_locals = <<>>
    /\ summary_data = <<>>
    /\ metrics = <<>>

NextPages ==
    \/ OpenFundAnalysis
    \/ ChangeStartDate
    \/ ChangeEndDate
    \/ ToggleRecompute
    \/ OpenFundsComparison

SpecPages == InitPages /\ [][NextPages]_vars

(***************************************************************************)
(* Claims about the page runs (checked under SpecPages).                   *)
(***************************************************************************)
\* the frame the periods of the last run were cut from
Frame == IF page = "analysis" THEN display_df ELSE nav_df

Ran == page \in {"analysis", "comparison"}

Passes == 1..Len(period_locals)

\* the rows of the frame dated on or after the start date of pass i
WindowRows(i) ==
    LET start == period_locals[i].start_date
        keep(row) == start # NaT /\ row.date >= start
    IN  SelectSeq(Frame, keep)

QMax(a, b) == IF QGt(a, b) THEN a ELSE b

\* C1 as stated: in both pages, for every window with at least 2 points,
\* years = max(point_count / 252, 1.0), so it is never below 1.0.
C1_YearsFlooredAtOne ==
    Ran => \A i \in Passes :
        Len(WindowRows(i)) >= 2
            => period_locals[i].years = QMax(QNorm(Len(WindowRows(i)), 252), Q(1))

\* C1 amended: in both pages, for every window with at least 2 points,
\* years = point_count / 252 exactly; it is below 1.0 for every window of fewer
\* than 252 points.
C1_YearsIsCountOver252 ==
    Ran => \A i \in Passes :
        Len(WindowRows(i)) >= 2
            => /\ period_locals[i].years = QNorm(Len(WindowRows(i)), 252)
               /\ Len(WindowRows(i)) < 252 => QGt(Q(1), period_locals[i].years)

\* a window of 3 points was annualized with years = 3/252 = 1/84
C1_Witness ==
    /\ Ran
    /\ \E i \in Passes :
          /\ Len(WindowRows(i)) = 3
          /\ ~period_locals[i].na
          /\ period_locals[i].years = <<1, 84>>

\* the rows of the session series inside the selected date range
RawRows ==
    LET keep(row) == row.date >= min_date /\ row.date <= max_date
    IN  SelectSeq(nav_df, keep)

\* C2: with rebase requested, the rebased fund and benchmark value on the first
\* retained date is exactly 100 and every later ratio of consecutive rebased
\* values equals the ratio of the raw values, whether or not the selected start
\* date is a date of the series.
C2_RebaseFrom100 ==
    page = "analysis" /\ recompute_from_date /\ display_df # <<>>
        => /\ Len(display_df) = Len(RawRows)
           /\ display_df[1].nav = Q(100)
           /\ display_df[1].bench = Q(100)
           /\ \A t \in 2..Len(display_df) :
                 /\ QDiv(display_df[t].nav, display_df[t - 1].nav)
                       = QDiv(RawRows[t].nav, RawRows[t - 1].nav)
                 /\ QDiv(display_df[t].bench, display_df[t - 1].bench)
                       = QDiv(RawRows[t].bench, RawRows[t - 1].bench)

\* the daily returns of a column over the rows of window i alone: none for its
\* first row
ReturnsInsideWindow(i, c) ==
    LET w == WindowRows(i)
    IN  [t \in 1..Len(w) |->
            IF t = 1 THEN NaN ELSE QSub(QDiv(w[t][c], w[t - 1][c]), Q(1))]

\* the daily returns of a column over the whole frame, kept for the rows of
\* window i: its first row keeps its return on the row before it, if any
ReturnsOfFrame(i, c) ==
    LET first == Len(Frame) - Len(WindowRows(i)) + 1
    IN  [t \in 1..Len(WindowRows(i)) |->
            IF first + t - 1 = 1 THEN NaN
            ELSE QSub(QDiv(Frame[first + t - 1][c], Frame[first + t - 2][c]), Q(1))]

VolOf(returns) == VMul(VMul(std(Tup(returns)), VSqrt(VQ(Q(252)))), VQ(Q(100)))

\* C4 as stated: the volatilities of a window are those of the daily returns
\* computed over the window only, so that the first point of the window
\* contributes no return, even when the frame has earlier points.
C4_ReturnsInsideWindow ==
    Ran => \A i \in Passes :
        ~period_locals[i].na
            => /\ period_locals[i].fund_vol = VolOf(ReturnsInsideWindow(i, "nav"))
               /\ page = "analysis"
                    => period_locals[i].bench_vol = VolOf(ReturnsInsideWindow(i, "bench"))

\* C4 amended: the daily returns are computed over the whole date-filtered frame
\* before any window is cut out; the first point of a window contributes its
\* return on the preceding point of the frame when there is one, and no return
\* only when it is the first point of the frame.
C4_ReturnsOfFrame ==
    Ran => \A i \in Passes :
        ~period_locals[i].na
            => /\ period_locals[i].fund_vol = VolOf(ReturnsOfFrame(i, "nav"))
               /\ page = "analysis"
                    => period_locals[i].bench_vol = VolOf(ReturnsOfFrame(i, "bench"))

\* a window of 2 points that follows an earlier point has a volatility, which
\* the single return inside the window could not give
C4_Witness ==
    /\ Ran
    /\ \E i \in Passes :
          /\ ~period_locals[i].na
          /\ Len(WindowRows(i)) = 2
          /\ Len(Frame) = 3
          /\ period_locals[i].fund_vol # VNaN
          /\ period_locals[i].fund_vol # VQ(Q(0))
          /\ VolOf(ReturnsInsideWindow(i, "nav")) = VNaN

\* a cell of the summary table or of the metrics: 'N/A', or a finite number
FiniteOrNA(cell) ==
    \/ cell = NA
    \/ cell.t = "text" /\ VIsFinite(cell.of)
    \/ cell.t \notin {"N/A", "text"} /\ VIsFinite(cell)

\* C5: every field of every period metric set is a finite number or 'N/A', also
\* for a window of exactly 2 points, and the Sharpe ratio is 0 only when the
\* annualized performance is 0 or the volatility is 0.
C5_FiniteOrNA ==
    /\ page = "analysis" =>
          \A i \in 1..Len(summary_data) :
              /\ FiniteOrNA(summary_data[i].fund_vol)
              /\ FiniteOrNA(summary_data[i].bench_vol)
              /\ FiniteOrNA(summary_data[i].fund_perf)
              /\ FiniteOrNA(summary_data[i].bench_perf)
              /\ FiniteOrNA(summary_data[i].tracking_error)
              /\ FiniteOrNA(summary_data[i].sharpe_ratio)
              /\ ~period_locals[i].na /\ period_locals[i].sharpe_ratio = VQ(Q(0))
                    => \/ period_locals[i].fund_vol = VQ(Q(0))
                       \/ period_locals[i].fund_perf_annualized = VQ(Q(0))
    /\ page = "comparison" =>
          \A i \in 1..Len(metrics) :
              /\ FiniteOrNA(metrics[i].perf)
              /\ FiniteOrNA(metrics[i].excess_return)
              /\ FiniteOrNA(metrics[i].volatility)

AllNA(i) ==
    IF page = "analysis"
    THEN /\ summary_data[i].fund_vol = NA /\ summary_data[i].bench_vol = NA
         /\ summary_data[i].fund_perf = NA /\ summary_data[i].bench_perf = NA
         /\ summary_data[i].tracking_error = NA /\ summary_data[i].sharpe_ratio = NA
    ELSE /\ metrics[i].perf = NA /\ metrics[i].excess_return = NA
         /\ metrics[i].volatility = NA

NoneNA(i) ==
    IF page = "analysis"
    THEN /\ summary_data[i].fund_vol # NA /\ summary_data[i].bench_vol # NA
         /\ summary_data[i].fund_perf # NA /\ summary_data[i].bench_perf # NA
         /\ summary_data[i].tracking_error # NA /\ summary_data[i].sharpe_ratio # NA
    ELSE /\ metrics[i].perf # NA /\ metrics[i].excess_return # NA
         /\ metrics[i].volatility # NA

\* C6: a window that retains fewer than 2 points has 'N/A' in every field and no
\* number; the other windows of the same run, with 2 points or more, are
\* computed.
C6_ShortWindowAllNA ==
    Ran => \A i \in Passes :
        /\ Len(WindowRows(i)) < 2 => AllNA(i)
        /\ Len(WindowRows(i)) >= 2 => NoneNA(i)

\* one run with a window of a single point, all 'N/A', and a computed window
C6_Witness ==
    /\ Ran
    /\ \E i \in Passes, j \in Passes :
          /\ Len(WindowRows(i)) = 1 /\ AllNA(i)
          /\ Len(WindowRows(j)) >= 2 /\ NoneNA(j)

TotalReturn(first, last) == VQ(QMul(QSub(QDiv(last, first), Q(1)), Q(100)))

AnnualizedReturn(first, last, n) ==
    VMul(VSub(VPow(VQ(QDiv(last, first)), VQ(QNorm(252, n))), VQ(Q(1))), VQ(Q(100)))

ExpectedPerf(i, c) ==
    LET w == WindowRows(i)
    IN  IF period_locals[i].Period = "YTD"
        THEN TotalReturn(w[1][c], w[Len(w)][c])
        ELSE AnnualizedReturn(w[1][c], w[Len(w)][c], Len(w))

\* C10: in the Fund Analysis loop, for a window with at least 2 points and
\* strictly positive first and last values, the performance is the total return
\* (last/first - 1) * 100 for the year-to-date window and the annualized return
\* ((last/first) ** (1/years) - 1) * 100 for every other window, for fund and
\* benchmark alike; a year-to-date window from 100 to 110 with the benchmark at
\* 100 at both ends gives 10, 0 and a difference of 10.
C10_Performance ==
    page = "analysis" => \A i \in Passes :
        LET w == WindowRows(i)
            p == period_locals[i]
        IN  Len(w) >= 2
            => /\ QGt(w[1].nav, Q(0)) /\ QGt(w[Len(w)].nav, Q(0))
                    => p.fund_perf = ExpectedPerf(i, "nav")
               /\ QGt(w[1].bench, Q(0)) /\ QGt(w[Len(w)].bench, Q(0))
                    => p.bench_perf = ExpectedPerf(i, "bench")
               /\ p.Period = "YTD" /\ w[1].nav = Q(100) /\ w[Len(w)].nav = Q(110)
                  /\ w[1].bench = Q(100) /\ w[Len(w)].bench = Q(100)
                    => /\ p.fund_perf = VQ(Q(10))
                       /\ p.bench_perf = VQ(Q(0))
                       /\ VSub(p.fund_perf, p.bench_perf) = VQ(Q(10))

\* one run with a year-to-date window from 100 to 110 that shows 10, and a 3Y
\* window from 100 to 110 that shows the annualized return instead
C10_Witness ==
    /\ page = "analysis"
    /\ \E i \in Passes, j \in Passes :
          /\ period_locals[i].Period = "YTD" /\ ~period_locals[i].na
          /\ WindowRows(i)[1].nav = Q(100)
          /\ period_locals[i].fund_perf = VQ(Q(10))
          /\ period_locals[i].bench_perf = VQ(Q(0))
          /\ period_locals[j].Period = "3Y" /\ ~period_locals[j].na
          /\ WindowRows(j)[1].nav = Q(100)
          /\ WindowRows(j)[Len(WindowRows(j))].nav = Q(110)
          /\ period_locals[j].fund_perf = AnnualizedReturn(Q(100), Q(110), Len(WindowRows(j)))
          /\ period_locals[j].fund_perf # VQ(Q(10))

(***************************************************************************)
(* Calls of the parsers and of calculate_revenue.                          *)
(***************************************************************************)
Alphabet == {"0", "1", "5", ".", ",", "%", "M", "B", "K", "m", " ", "N", "A"}

RevAlphabet == {"0", "1", "5", ".", "M", "%"}

ExampleTexts ==
    { <<"1", ".", "5", "M">>, <<"2", "B">>, <<"7", "5", "0", "K">>,
      <<"N", "/", "A">>, <<"1", ",", "5", "%">>, <<"1", "%">>, <<"i", "n", "f">> }

TextsOver(A, n) == UNION {[1..j -> A] : j \in 0..n}

Cells ==
    {Text(s) : s \in TextsOver(Alphabet, MaxStrLen) \cup ExampleTexts}
        \cup {Missing, Number(1500000, 0), Number(15, -1), Number(0, 0), Number(5, -2)}

RevCells ==
    {Text(s) : s \in TextsOver(RevAlphabet, MaxRevLen) \cup ExampleTexts}
        \cup {Missing, Number(1500000, 0), Number(0, 0)}

CallParseAum ==
    /\ call.fn = "none"
    /\ \E x \in Cells :
          call' = [fn |-> "parse_aum", a |-> x, f |-> Missing, result |-> parse_aum(x)]
    /\ UNCHANGED page_vars

CallParseFees ==
    /\ call.fn = "none"
    /\ \E x \in Cells :
          call' = [fn |-> "parse_fees", a |-> Missing, f |-> x, result |-> parse_fees(x)]
    /\ UNCHANGED page_vars

CallCalculateRevenue ==
    /\ call.fn = "none"
    /\ \E x \in RevCells, y \in RevCells :
          call' = [fn |-> "calculate_revenue", a |-> x, f |-> y,
                   result |-> calculate_revenue(x, y)]
    /\ UNCHANGED page_vars

\* the helper has returned and the page goes on; the next call starts afresh
Return ==
    /\ call.fn # "none"
    /\ call' = NoCall
    /\ UNCHANGED page_vars

IdlePage ==
    /\ nav_df = <<>>
    /\ page = "none"
    /\ min_date = 0
    /\ max_date = 0
    /\ recompute_from_date = FALSE
    /\ display_df = <<>>
    /\ period_locals = <<>>
    /\ summary_data = <<>>
    /\ metrics = <<>>

InitParse == call = NoCall /\ IdlePage /\ IdleSession

NextParse == CallParseAum \/ CallParseFees \/ CallCalculateRevenue \/ Return

SpecParse == InitParse /\ [][NextParse]_vars

(***************************************************************************)
(* Claims about the parsers (checked under SpecParse).                     *)
(***************************************************************************)
AumCall == call.fn = "parse_aum" /\ call.a.kind = "text" /\ ~is_na_or_empty(call.a)

\* the number found in the uppercased, stripped text once every character that
\* is neither a digit nor a dot is dropped
ExtractedNumber(x) == float_text(re_sub_non_digit(upper(strip(x.s))))

\* what the unit letters u1, u2, u3, looked for in that order, require of a call
UnitOrder(u1, p1, u2, p2, u3, p3) ==
    LET u   == upper(strip(call.a.s))
        num == ExtractedNumber(call.a)
        ok  == num.exc = "none"
        has(c) == Contains(u, c)
    IN  /\ has(u1) /\ ok => call.result.val = FScale(num.val, p1)
        /\ ~has(u1) /\ has(u2) /\ ok => call.result.val = FScale(num.val, p2)
        /\ ~has(u1) /\ ~has(u2) /\ has(u3) /\ ok => call.result.val = FScale(num.val, p3)
        /\ ~has(u1) /\ ~has(u2) /\ ~has(u3) /\ float_text(call.a.s).exc = "none"
              => call.result.val = float_text(call.a.s).val

AumExamples ==
    /\ call.fn = "parse_aum" /\ call.a = Text(<<"1", ".", "5", "M">>)
          => call.result.val = DecNorm(1500000, 0)
    /\ call.fn = "parse_aum" /\ call.a = Text(<<"2", "B">>)
          => call.result.val = DecNorm(2, 9)
    /\ call.fn = "parse_aum" /\ call.a = Text(<<"7", "5", "0", "K">>)
          => call.result.val = DecNorm(750000, 0)
    /\ call.fn = "parse_aum" /\ call.a = Number(1500000, 0)
          => call.result.val = DecNorm(1500000, 0)

\* C3 as stated: parse_aum looks for the unit letters in the order B, M, K, so a
\* text containing 'B' is multiplied by 1e9 even if it also contains 'M' or 'K'.
C3_OrderBMK == (AumCall => UnitOrder("B", 9, "M", 6, "K", 3)) /\ AumExamples

\* C3 amended: parse_aum looks for the unit letters in the order M, B, K: a text
\* containing 'M' is multiplied by 1e6 even if it also contains 'B' or 'K', a text
\* with 'B' and no 'M' by 1e9, a text with only 'K' by 1e3, and a text with none of
\* them is parsed directly; the four examples of the claim hold.
C3_OrderMBK == (AumCall => UnitOrder("M", 6, "B", 9, "K", 3)) /\ AumExamples

\* a text with both 'B' and 'M' has been parsed as millions
C3_Witness ==
    /\ AumCall
    /\ Contains(upper(strip(call.a.s)), "B")
    /\ Contains(upper(strip(call.a.s)), "M")
    /\ ExtractedNumber(call.a).exc = "none"
    /\ ExtractedNumber(call.a).val # DecNorm(0, 0)
    /\ call.result.val = FScale(ExtractedNumber(call.a).val, 6)

\* C7: parse_aum and parse_fees never raise, and every input gives a finite number
\* or the not-available sentinel (None).
C7_NumberOrSentinel ==
    call.fn \in {"parse_aum", "parse_fees"}
        => /\ call.result.exc = "none"
           /\ call.result.val.k \in {"float", "None"}

\* C8: calculate_revenue returns None unless both parses succeed, otherwise the
\* product of the parsed values; a parsed 0 gives revenue 0, and
\* calculate_revenue("1.5M", "1%") = 15000.
C8_Revenue ==
    call.fn = "calculate_revenue"
        => LET aum  == parse_aum(call.a).val
               fees == parse_fees(call.f).val
           IN  /\ call.result.exc = "none"
               /\ aum = PyNone \/ fees = PyNone => call.result.val = PyNone
               /\ aum # PyNone /\ fees # PyNone => call.result.val = FMul(aum, fees)
               /\ aum # PyNone /\ fees # PyNone
                  /\ (aum = DecNorm(0, 0) \/ fees = DecNorm(0, 0))
                     => call.result.val = DecNorm(0, 0)
               /\ call.a = Text(<<"1", ".", "5", "M">>) /\ call.f = Text(<<"1", "%">>)
                     => call.result.val = DecNorm(15000, 0)

\* the text with one trailing percent sign dropped and commas turned into dots
FeeLiteral(s) ==
    LET t == IF s # <<>> /\ s[Len(s)] = "%" THEN SubSeq(s, 1, Len(s) - 1) ELSE s
    IN  [i \in 1..Len(t) |-> IF t[i] = "," THEN "." ELSE t[i]]

\* C9: parse_fees drops a trailing percent sign, reads a decimal comma as a decimal
\* point, parses the result as a decimal and divides it by 100, so
\* parse_fees("1,5%") = 0.015; an empty, missing or "N/A" input gives None.
C9_Fee ==
    call.fn = "parse_fees"
        => /\ is_na_or_empty(call.f) => call.result.val = PyNone
           /\ call.f.kind = "text" /\ ~is_na_or_empty(call.f)
              /\ float_text(FeeLiteral(call.f.s)).exc = "none"
                 => call.result.val = FScale(float_text(FeeLiteral(call.f.s)).val, -2)
           /\ call.f = Text(<<"1", ",", "5", "%">>) => call.result.val = DecNorm(15, -3)

\* parse_fees("1,5%") returned 0.015
C9_Witness ==
    /\ call.fn = "parse_fees"
    /\ call.f = Text(<<"1", ",", "5", "%">>)
    /\ call.result.val = DecNorm(15, -3)

(***************************************************************************)
(* Page runs on series that hold zero and negative values.                 *)
(***************************************************************************)
NonPositiveLen == 2

NonPositiveVals == {0 - 100, 0, 100, 110}

\* the series of at most n rows dated after d0 with values in V, in date order
RECURSIVE SeriesOver(_, _, _)
SeriesOver(V, d0, n) ==
    IF n = 0 THEN {<<>>}
    ELSE {<<>>} \cup
         UNION { UNION { {<<[date |-> d, nav |-> Q(a), bench |-> Q(b)]>> \o rest :
                             rest \in SeriesOver(V, d, n - 1)} : a \in V, b \in V }
                 : d \in {x \in CalendarDates : x > d0} }

InitNonPositive ==
    /\ call = NoCall
    /\ IdleSession
    /\ nav_df \in SeriesOver(NonPositiveVals, 0, NonPositiveLen) \ {<<>>}
    /\ page = "none"
    /\ min_date = 0
    /\ max_date = 0
    /\ recompute_from_date = FALSE
    /\ display_df = <<>>
    /\ period_locals = <<>>
    /\ summary_data = <<>>
    /\ metrics = <<>>

SpecNonPositive == InitNonPositive /\ [][NextPages]_vars

\* both ends of column c of window i are strictly positive
PositiveEnds(i, c) ==
    LET w == WindowRows(i)
    IN  QGt(w[1][c], Q(0)) /\ QGt(w[Len(w)][c], Q(0))

\* the fund performance that pass i shows
ShownFundPerf(i) ==
    IF page = "analysis" THEN summary_data[i].fund_perf ELSE Fmt2(metrics[i].perf)

\* C11: in a window of at least 2 points, a side (fund or benchmark) whose first
\* or last value is not strictly positive (zero, negative or missing) has a
\* performance of exactly 0, shown as a number and not as 'N/A', while the other
\* side is still computed from its own values.
C11_FallbackToZero ==
    Ran => \A i \in Passes :
        Len(WindowRows(i)) >= 2
            => /\ ~PositiveEnds(i, "nav")
                    => /\ period_locals[i].fund_perf = VQ(Q(0))
                       /\ ShownFundPerf(i) = Fmt2(VQ(Q(0)))
               /\ ~PositiveEnds(i, "bench")
                    => /\ period_locals[i].bench_perf = VQ(Q(0))
                       /\ page = "analysis" => summary_data[i].bench_perf = Fmt2(VQ(Q(0)))
               /\ PositiveEnds(i, "nav")
                    => period_locals[i].fund_perf = ExpectedPerf(i, "nav")
               /\ PositiveEnds(i, "bench")
                    => period_locals[i].bench_perf = ExpectedPerf(i, "bench")

\* a window whose fund side starts at 0 or below shows 0 for the fund while its
\* benchmark side, from 100 to 110, shows a return that is not 0
C11_Witness ==
    /\ Ran
    /\ \E i \in Passes :
          /\ Len(WindowRows(i)) = 2
          /\ QLe(WindowRows(i)[1].nav, Q(0))
          /\ WindowRows(i)[1].bench = Q(100)
          /\ WindowRows(i)[2].bench = Q(110)
          /\ period_locals[i].fund_perf = VQ(Q(0))
          /\ period_locals[i].bench_perf # VQ(Q(0))
          /\ period_locals[i].bench_perf = ExpectedPerf(i, "bench")

(***************************************************************************)
(* Sharpe ratio and tracking error (checked under SpecPages).              *)
(***************************************************************************)
\* the annualized fund return of window i, as a fraction, over its fund
\* volatility, as a fraction
AnnualizedOverVol(i) ==
    LET w == WindowRows(i)
    IN  VDiv(VDiv(AnnualizedReturn(w[1].nav, w[Len(w)].nav, Len(w)), VQ(Q(100))),
             VDiv(VolOf(ReturnsOfFrame(i, "nav")), VQ(Q(100))))

\* C12: the Sharpe ratio of every computed window, the year-to-date one
\* included, is the annualized fund return over the fund volatility, both as
\* fractions, and it is 0 exactly when the fund volatility is exactly 0.
C12_SharpeIsAnnualizedOverVol ==
    page = "analysis" => \A i \in Passes :
        ~period_locals[i].na /\ PositiveEnds(i, "nav")
            => period_locals[i].sharpe_ratio
                 = IF period_locals[i].fund_vol = VQ(Q(0)) THEN VQ(Q(0))
                   ELSE AnnualizedOverVol(i)

\* a float expression that is below 0: a negative rational, or 0 minus a
\* positive expression
VLt0(v) ==
    \/ v.t = "q" /\ QGt(Q(0), v.q)
    \/ v.t = "sub" /\ v.l = VQ(Q(0)) /\ VGt0(v.r)

\* C13: for every window with at least 2 points, the tracking error is the fund
\* volatility minus the benchmark volatility, as a signed difference: it is
\* neither the reversed difference nor 0 when the two differ, and it is below 0
\* when the fund volatility is 0 and the benchmark's is not.
C13_TrackingErrorSigned ==
    page = "analysis" => \A i \in Passes :
        Len(WindowRows(i)) >= 2
            => LET fv == VolOf(ReturnsOfFrame(i, "nav"))
                   bv == VolOf(ReturnsOfFrame(i, "bench"))
                   te == period_locals[i].tracking_error
               IN  /\ te = VSub(fv, bv)
                   /\ summary_data[i].tracking_error = Fmt2(VSub(fv, bv))
                   /\ fv # bv /\ fv # VNaN /\ bv # VNaN
                         => te # VSub(bv, fv) /\ te # VQ(Q(0))
                   /\ fv = VQ(Q(0)) /\ bv # VNaN /\ bv # VQ(Q(0)) => VLt0(te)

\* a window of 3 points with a flat fund and a moving benchmark: the tracking
\* error is 0 minus the benchmark volatility, below 0
C13_Witness ==
    /\ page = "analysis"
    /\ \E i \in Passes :
          /\ Len(WindowRows(i)) = 3
          /\ period_locals[i].fund_vol = VQ(Q(0))
          /\ VGt0(period_locals[i].bench_vol)
          /\ period_locals[i].tracking_error = VSub(VQ(Q(0)), period_locals[i].bench_vol)
          /\ VLt0(period_locals[i].tracking_error)

(***************************************************************************)
(* The two metric implementations (checked under SpecPages).               *)
(***************************************************************************)
FullRangeNoRebase ==
    /\ page = "analysis"
    /\ min_date = date_min(nav_df)
    /\ max_date = date_max(nav_df)
    /\ ~recompute_from_date

\* the pass of the loop results named 3Y
Pass3Y(loop) == loop[CHOOSE i \in 1..Len(loop) : loop[i].Period = "3Y"]

\* pass a of the Fund Analysis loop and pass c of calculate_fund_metrics agree
SamePass(a, c) ==
    /\ a.na = c.na
    /\ a.start_date = c.start_date
    /\ a.trading_days = c.trading_days
    /\ ~a.na => /\ a.years = c.years
                /\ a.fund_perf = c.fund_perf
                /\ a.fund_vol = c.fund_vol
                /\ c.excess_return = VSub(a.fund_perf, a.bench_perf)

\* C20: for the same series, with the full date range selected and rebase off,
\* the 3Y window of the Fund Analysis page and the '3Y' period of
\* calculate_fund_metrics hold the same points and give the same years, fund
\* performance and fund volatility, and the excess return of
\* calculate_fund_metrics is the fund performance minus the benchmark
\* performance of the Fund Analysis page.
C20_SameMetrics ==
    /\ FullRangeNoRebase
          => LET a == Pass3Y(period_locals)
                 c == Pass3Y(calculate_fund_metrics(nav_df))
             IN  /\ SamePass(a, c)
                 /\ period_df_of(build_calc_df(display_df), a.start_date)
                       = period_df_of(build_calc_df(nav_df), c.start_date)
    /\ page = "comparison"
          => LET full == fund_analysis_script(nav_df, date_min(nav_df), date_max(nav_df), FALSE)
             IN  SamePass(Pass3Y(full.period_locals), Pass3Y(period_locals))

\* a 3Y window of 3 points from 100 to 110 has been computed on the Fund
\* Analysis page, with the annualized return that calculate_fund_metrics gives
C20_Witness ==
    /\ FullRangeNoRebase
    /\ LET a == Pass3Y(period_locals)
           c == Pass3Y(calculate_fund_metrics(nav_df))
       IN  /\ ~a.na /\ a.trading_days = 3
           /\ nav_df[1].nav = Q(100) /\ nav_df[3].nav = Q(110)
           /\ a.fund_perf = AnnualizedReturn(Q(100), Q(110), 3)
           /\ c.fund_perf = a.fund_perf
           /\ c.fund_vol = a.fund_vol /\ VGt0(a.fund_vol)

(***************************************************************************)
(* The session: Dashboard.py loads the fund table and one series per fund  *)
(* into st.session_state; the pages read them from there.  A dict is a     *)
(* sequence of [key, df] entries in insertion order.                       *)
(***************************************************************************)
FundNames == <<"A", "B">>

\* a cell of the fund table: a number, an empty cell (NaN) or a text
Num(n) == [k |-> "num", v |-> n]

Empty == [k |-> "nan", v |-> 0]

Txt(n) == [k |-> "text", v |-> n]

\* a row of "Funds List.xlsx" after the renaming of its columns; every fourth
\* row has no E Score, every third of the others has a text for it, every fifth
\* row has no Age
FundRow(i) ==
    [Fund |-> IF i <= Len(FundNames) THEN FundNames[i] ELSE "F" \o ToString(i),
     File |-> i,
     Manager |-> i,
     Gender |-> IF i % 2 = 0 THEN "M" ELSE "F",
     E_Score |-> IF i % 4 = 0 THEN Empty ELSE IF i % 3 = 0 THEN Txt(0) ELSE Num(10 * i),
     Age |-> IF i % 5 = 0 THEN Empty ELSE Num(30 + 3 * i)]

\* the CSV files of the model: the value of a day is fixed by its date
FileSeries ==
    {s \in SessionSeries :
        \A i \in 1..Len(s) :
            /\ s[i].bench = Q(100)
            /\ s[i].nav = Q(IF s[i].date % 2 = 0 THEN 110 ELSE 100)}

HasKey(d, k) == \E i \in 1..Len(d) : d[i].key = k

\* d[k]
dict_get(d, k) == d[CHOOSE i \in 1..Len(d) : d[i].key = k].df

\* d[k] = v
dict_set(d, k, v) ==
    IF HasKey(d, k)
    THEN Tup([i \in 1..Len(d) |-> IF d[i].key = k THEN [key |-> k, df |-> v] ELSE d[i]])
    ELSE Append(d, [key |-> k, df |-> v])

\* pd.read_csv(f"./data/{file}")
read_csv(fs, file) == dict_get(fs.csv, file)

\* the loop that fills st.session_state["nav_dfs"], over the first n rows
RECURSIVE load_nav_dfs(_, _)
load_nav_dfs(fs, n) ==
    IF n = 0 THEN <<>>
    ELSE dict_set(load_nav_dfs(fs, n - 1), fs.funds[n].Fund, read_csv(fs, fs.funds[n].File))

\* the block under `if not "funds_list" in st.session_state or ...`
load_session(fs) ==
    [has |-> TRUE, funds_list |-> fs.funds, nav_dfs |-> load_nav_dfs(fs, Len(fs.funds))]

\* if not "funds_list" in st.session_state or not "nav_dfs" in st.session_state
needs_load(sess) == ~sess.has

\* the mutant stores the filtered, sorted frame back into the session
nav_dfs_filtered_in_place(nav_dfs, fund, lo, hi) ==
    dict_set(nav_dfs, fund, sort_values(filter_dates(dict_get(nav_dfs, fund), lo, hi)))

\* st.session_state["nav_dfs"] after a run of the Fund Analysis script: the
\* script rebinds df to the new frames that indexing and sort_values return and
\* works on copies (display_df, calc_df); nothing is stored into the session
nav_dfs_after_analysis(nav_dfs, fund, lo, hi) == nav_dfs

\* a run of the Fund Analysis script for the fund of the select box
run_fund_page(fund, lo, hi, recompute) ==
    /\ session_state.has
    /\ \E df \in {dict_get(session_state.nav_dfs, fund)} :
       \E out \in {fund_analysis_script(df, lo, hi, recompute)} :
          /\ nav_df' = df
          /\ display_df' = out.display_df
          /\ period_locals' = out.period_locals
          /\ summary_data' = out.summary_data
    /\ selected_fund' = fund
    /\ min_date' = lo
    /\ max_date' = hi
    /\ recompute_from_date' = recompute
    /\ page' = "analysis"
    /\ metrics' = <<>>
    /\ session_state' =
          [session_state EXCEPT !.nav_dfs = nav_dfs_after_analysis(@, fund, lo, hi)]
    /\ all_funds_data' = <<>>
    /\ UNCHANGED <<call, files, snapshot, task_vars>>

\* the Dashboard page is opened: the data is loaded if the session lacks it
VisitDashboard ==
    /\ page # "dashboard"
    /\ page' = "dashboard"
    /\ session_state' = IF needs_load(session_state) THEN load_session(files)
                        ELSE session_state
    /\ snapshot' = IF snapshot = NoSession THEN session_state' ELSE snapshot
    /\ nav_df' = <<>>
    /\ min_date' = 0
    /\ max_date' = 0
    /\ recompute_from_date' = FALSE
    /\ display_df' = <<>>
    /\ period_locals' = <<>>
    /\ summary_data' = <<>>
    /\ metrics' = <<>>
    /\ selected_fund' = ""
    /\ all_funds_data' = <<>>
    /\ task_view' = NoView
    /\ UNCHANGED <<call, files, bonus_allocations>>

\* outside the program: a new day is appended to one of the CSV files (after
\* the load; a file that grows before it is one more initial state)
NavFileGrows ==
    /\ session_state.has
    /\ \E i \in 1..Len(files.csv), d \in CalendarDates :
          /\ Len(files.csv[i].df) < MaxLen
          /\ d > date_max(files.csv[i].df)
          /\ \E s \in FileSeries :
                /\ s = Append(files.csv[i].df, s[Len(s)])
                /\ s[Len(s)].date = d
                /\ files' = [files EXCEPT !.csv[i].df = s]
    /\ UNCHANGED <<call, page_vars_but_session, session_state, snapshot,
                   selected_fund, all_funds_data, task_vars>>

\* a fund is picked in "Select a fund": the date inputs take the defaults of its series
SelectFund ==
    /\ session_state.has
    /\ \E i \in 1..Len(session_state.funds_list) :
          LET fund == session_state.funds_list[i].Fund
              df   == dict_get(session_state.nav_dfs, fund)
          IN  /\ page # "analysis" \/ fund # selected_fund
              /\ page # "analysis" => i = 1
              /\ run_fund_page(fund, date_min(df), date_max(df), FALSE)

SelectStartDate ==
    /\ page = "analysis"
    /\ \E lo \in CalendarDates :
          /\ Selectable(lo)
          /\ lo # min_date
          /\ run_fund_page(selected_fund, lo, max_date, recompute_from_date)

SelectEndDate ==
    /\ page = "analysis"
    /\ \E hi \in CalendarDates :
          /\ Selectable(hi)
          /\ hi # max_date
          /\ run_fund_page(selected_fund, min_date, hi, recompute_from_date)

TickRecompute ==
    /\ page = "analysis"
    /\ run_fund_page(selected_fund, min_date, max_date, ~recompute_from_date)

\* the loop `for idx, fund_row in funds_list.iterrows()` of the Funds Comparison
\* page: one entry per fund that has a series
all_funds_loop(funds_list, nav_dfs) ==
    LET has(row) == HasKey(nav_dfs, row.Fund)
        rows == SelectSeq(funds_list, has)
    IN  Tup([i \in 1..Len(rows) |->
            LET loop == calculate_fund_metrics(dict_get(nav_dfs, rows[i].Fund))
            IN  [Fund |-> rows[i].Fund, locals |-> loop,
                 metrics |-> Tup([j \in 1..Len(loop) |-> metrics_entry(loop[j])])]])

CompareFunds ==
    /\ session_state.has
    /\ page # "comparison"
    /\ page' = "comparison"
    /\ all_funds_data' = all_funds_loop(session_state.funds_list, session_state.nav_dfs)
    /\ nav_df' = <<>>
    /\ min_date' = 0
    /\ max_date' = 0
    /\ recompute_from_date' = FALSE
    /\ display_df' = <<>>
    /\ period_locals' = <<>>
    /\ summary_data' = <<>>
    /\ metrics' = <<>>
    /\ selected_fund' = ""
    /\ UNCHANGED <<call, files, session_state, snapshot, task_vars>>

InitSession ==
    /\ call = NoCall
    /\ IdlePage
    /\ \E a \in FileSeries, b \in FileSeries :
          files = [funds |-> <<FundRow(1), FundRow(2)>>,
                   csv |-> <<[key |-> FundRow(1).File, df |-> a],
                             [key |-> FundRow(2).File, df |-> b]>>]
    /\ session_state = NoSession
    /\ snapshot = NoSession
    /\ selected_fund = ""
    /\ all_funds_data = <<>>
    /\ IdleTask

NextSession ==
    \/ VisitDashboard
    \/ NavFileGrows
    \/ SelectFund
    \/ SelectStartDate
    \/ SelectEndDate
    \/ TickRecompute
    \/ CompareFunds

SpecSession == InitSession /\ [][NextSession]_vars

(***************************************************************************)
(* Claims about the session (checked under SpecSession).                   *)
(***************************************************************************)
\* the anchor date of a named window for a series that ends on the date last:
\* January 1 of the year of last, or last minus N years
AnchorOf(name, last) ==
    CASE name = "YTD" -> (last \div 100) * 100 + 1
      [] name = "1Y"  -> last - 100
      [] name = "3Y"  -> last - 300
      [] name = "5Y"  -> last - 500

\* the stored series of a fund
StoredSeries(fund) == dict_get(session_state.nav_dfs, fund)

\* the rows of the selected fund's stored series inside the selected date range
RetainedRows ==
    LET keep(row) == row.date >= min_date /\ row.date <= max_date
    IN  SelectSeq(StoredSeries(selected_fund), keep)

\* the number of rows of df dated on or after d
RowsFrom(df, d) == Cardinality({i \in 1..Len(df) : df[i].date >= d})

\* in the Funds Comparison page every fund's windows are anchored on the last
\* date of that fund's own stored series
ComparisonAnchors ==
    page = "comparison" =>
        \A k \in 1..Len(all_funds_data) :
            LET df == StoredSeries(all_funds_data[k].Fund)
            IN  \A i \in 1..Len(all_funds_data[k].locals) :
                    LET p == all_funds_data[k].locals[i]
                    IN  /\ p.start_date = AnchorOf(p.Period, date_max(df))
                        /\ p.trading_days = RowsFrom(df, p.start_date)

\* C14 as stated: the anchor date of every window is derived from the last date
\* of the fund's own stored series, in the Fund Analysis page as in the Funds
\* Comparison page, and the window keeps the points dated on or after it.
C14_AnchorOnSeriesLastDate ==
    /\ ComparisonAnchors
    /\ page = "analysis" /\ RetainedRows # <<>> =>
          \A i \in Passes :
              LET p == period_locals[i]
              IN  /\ p.start_date = AnchorOf(p.Period, date_max(StoredSeries(selected_fund)))
                  /\ p.trading_days = RowsFrom(RetainedRows, p.start_date)

\* C14 amended: in the Funds Comparison page the anchor date of every window is
\* derived from the last date of the fund's own series; in the Fund Analysis
\* page it is derived from the last date of the selected fund's series that lies
\* inside the selected date range, which is the last date of the series only
\* when the end date is left at it.  Never from another fund or a global date;
\* the window keeps exactly the points dated on or after the anchor.
C14_AnchorOnLastRetainedDate ==
    /\ ComparisonAnchors
    /\ page = "analysis" /\ RetainedRows # <<>> =>
          \A i \in Passes :
              LET p == period_locals[i]
              IN  /\ p.start_date = AnchorOf(p.Period, date_max(RetainedRows))
                  /\ p.trading_days = RowsFrom(RetainedRows, p.start_date)
                  /\ max_date = date_max(StoredSeries(selected_fund))
                        => p.start_date
                             = AnchorOf(p.Period, date_max(StoredSeries(selected_fund)))

\* the end date was moved before the last date of the selected fund's series,
\* the other fund's series ends in another year, and the year-to-date window is
\* anchored on the year of the last retained date
C14_Witness ==
    /\ page = "analysis"
    /\ RetainedRows # <<>>
    /\ YearOf(date_max(RetainedRows)) # YearOf(date_max(StoredSeries(selected_fund)))
    /\ \E k \in 1..Len(session_state.nav_dfs) :
          /\ session_state.nav_dfs[k].key # selected_fund
          /\ YearOf(date_max(session_state.nav_dfs[k].df)) # YearOf(date_max(RetainedRows))
    /\ \E i \in Passes :
          /\ period_locals[i].Period = "YTD"
          /\ period_locals[i].start_date = YearOf(date_max(RetainedRows)) * 100 + 1
          /\ period_locals[i].trading_days >= 1

\* what the Fund Analysis script shows for the loaded data and the widget values
ShownFor(fund, lo, hi, recompute) ==
    fund_analysis_script(dict_get(snapshot.nav_dfs, fund), lo, hi, recompute)

\* C15: after any sequence of page visits, fund selections, date-range changes
\* and rebase toggles, the stored fund table and every stored series are what
\* was loaded first (also when the files have changed since and the Dashboard is
\* visited again), and what a page shows is what its computation gives for the
\* loaded data and the current parameters alone.
C15_SnapshotKept ==
    /\ ~session_state.has => snapshot = NoSession
    /\ session_state.has =>
          /\ session_state.funds_list = snapshot.funds_list
          /\ session_state.nav_dfs = snapshot.nav_dfs
    /\ page = "analysis" =>
          LET out == ShownFor(selected_fund, min_date, max_date, recompute_from_date)
          IN  /\ display_df = out.display_df
              /\ period_locals = out.period_locals
              /\ summary_data = out.summary_data
    /\ page = "comparison" =>
          all_funds_data = all_funds_loop(snapshot.funds_list, snapshot.nav_dfs)

\* the Fund Analysis page has run with a narrowed date range and the rebase
\* ticked, a file has grown since the load, and the session still holds the
\* series as loaded
C15_Witness ==
    /\ page = "analysis"
    /\ recompute_from_date
    /\ Len(display_df) < Len(StoredSeries(selected_fund))
    /\ load_session(files) # snapshot
    /\ session_state.nav_dfs = snapshot.nav_dfs
    /\ Len(StoredSeries(selected_fund)) >= 2

(***************************************************************************)
(* pages/3_Task.py: the Bonus Allocation page.  The allocation table is a  *)
(* sequence of [Fund, Manager, Bonus] rows; bonuses are whole euros.       *)
(***************************************************************************)
BUDGET == 1000000

TopCount == 10

GoodEsgBelow == 20

FundCount == 11

MaxFunded == 3

\* the amounts typed into a bonus cell (min_value = 0.0, max_value = BUDGET)
Amounts == {0, 1000, BUDGET}

\* the mutant starts every bonus at the step of the editor
zero_allocations_at_step(funds_list) ==
    Tup([i \in 1..Len(funds_list) |->
            [Fund |-> funds_list[i].Fund, Manager |-> funds_list[i].Manager, Bonus |-> 1000]])

\* pd.DataFrame of one {'Fund', 'Manager', 'Bonus (€)': 0.0} entry per row of
\* funds_list.iterrows(): on the first visit and on reset
zero_allocations(funds_list) ==
    Tup([i \in 1..Len(funds_list) |->
            [Fund |-> funds_list[i].Fund, Manager |-> funds_list[i].Manager, Bonus |-> 0]])

\* edited_df.merge(funds_list[['Fund', 'Gender', 'E Score', 'Age']], on='Fund', how='left')
merge_left(edited_df, funds_list) ==
    LET matches(i) == SelectSeq(funds_list, LAMBDA row : row.Fund = edited_df[i].Fund)
        joined(i) ==
            IF matches(i) = <<>>
            THEN <<[Fund |-> edited_df[i].Fund, Bonus |-> edited_df[i].Bonus,
                    Gender |-> "", E_Score |-> Empty, Age |-> Empty]>>
            ELSE Tup([j \in 1..Len(matches(i)) |->
                        [Fund |-> edited_df[i].Fund, Bonus |-> edited_df[i].Bonus,
                         Gender |-> matches(i)[j].Gender,
                         E_Score |-> matches(i)[j].E_Score, Age |-> matches(i)[j].Age]])
        RECURSIVE upto(_)
        upto(n) == IF n = 0 THEN <<>> ELSE upto(n - 1) \o joined(n)
    IN  upto(Len(edited_df))

\* df['Bonus (€)'].sum()
RECURSIVE bonus_sum(_)
bonus_sum(df) == IF df = <<>> THEN 0 ELSE Head(df).Bonus + bonus_sum(Tail(df))

\* (df[attr] * df['Bonus (€)']).sum() for a numeric column
RECURSIVE weighted_sum(_, _)
weighted_sum(df, attr) ==
    IF df = <<>> THEN 0 ELSE Head(df)[attr].v * Head(df).Bonus + weighted_sum(Tail(df), attr)

\* pd.to_numeric(column, errors='coerce'): a text that is no number becomes NaN
to_numeric(df, attr) ==
    Tup([i \in 1..Len(df) |->
            [df[i] EXCEPT ![attr] = IF @.k = "num" THEN @ ELSE Empty]])

\* (x / total_allocated * 100) if total_allocated > 0 else 0
pct_of_total(x, total_allocated) ==
    IF total_allocated > 0 THEN QNorm(x * 100, total_allocated) ELSE Q(0)

\* what a branch of the script that was not taken has computed and shown
NotComputed == <<>>

\* the mutant keeps the rows without a bonus in the block
weighted_block_all_rows(merged_df, attr) ==
    IF \A i \in 1..Len(merged_df) : merged_df[i][attr].k = "nan"
    THEN [shown |-> "nothing", rows |-> <<>>, weighted_avg |-> NotComputed]
    ELSE
    LET with_bonus == SelectSeq(merged_df, LAMBDA r : r[attr].k # "nan")
        numeric    == SelectSeq(to_numeric(with_bonus, attr), LAMBDA r : r[attr].k # "nan")
        total      == bonus_sum(numeric)
    IN  IF with_bonus = <<>>
        THEN [shown |-> "No bonuses allocated yet", rows |-> <<>>, weighted_avg |-> NotComputed]
        ELSE IF numeric = <<>>
        THEN [shown |-> "No valid data", rows |-> <<>>, weighted_avg |-> NotComputed]
        ELSE [shown |-> "values", rows |-> numeric,
              weighted_avg |-> IF total > 0 THEN QNorm(weighted_sum(numeric, attr), total)
                               ELSE Q(0)]

\* the E Score block and the Age block up to the weighted average: the rows
\* with a bonus and a value, their values made numeric, and the average
\* weighted by the bonus
weighted_block(merged_df, attr) ==
    IF \A i \in 1..Len(merged_df) : merged_df[i][attr].k = "nan"
    THEN [shown |-> "nothing", rows |-> <<>>, weighted_avg |-> NotComputed]
    ELSE
    LET with_bonus == SelectSeq(merged_df, LAMBDA r : r.Bonus > 0 /\ r[attr].k # "nan")
        numeric    == SelectSeq(to_numeric(with_bonus, attr), LAMBDA r : r[attr].k # "nan")
        total      == bonus_sum(numeric)
    IN  IF with_bonus = <<>>
        THEN [shown |-> "No bonuses allocated yet", rows |-> <<>>, weighted_avg |-> NotComputed]
        ELSE IF numeric = <<>>
        THEN [shown |-> "No valid data", rows |-> <<>>, weighted_avg |-> NotComputed]
        ELSE [shown |-> "values", rows |-> numeric,
              weighted_avg |-> IF total > 0 THEN QNorm(weighted_sum(numeric, attr), total)
                               ELSE Q(0)]

\* the bonus given to the rows of a shown block whose value is in [lo, hi), and
\* its share of the total
group_pct(block, attr, lo, hi, total_allocated) ==
    IF block.shown # "values" THEN NotComputed
    ELSE LET rows == SelectSeq(block.rows, LAMBDA r : r[attr].v >= lo /\ r[attr].v < hi)
         IN  <<[count |-> Len(rows), bonus |-> bonus_sum(rows),
                pct |-> pct_of_total(bonus_sum(rows), total_allocated)]>>

\* the Gender Distribution lines: one per gender that holds a bonus
gender_distribution(merged_df, total_allocated) ==
    LET line(g) ==
            LET paid == SelectSeq(merged_df, LAMBDA r : r.Bonus > 0 /\ r.Gender = g)
                all  == SelectSeq(merged_df, LAMBDA r : r.Gender = g)
            IN  IF paid = <<>> THEN <<>>
                ELSE <<[gender |-> g, total |-> bonus_sum(all), count |-> Len(paid),
                        pct |-> pct_of_total(bonus_sum(all), total_allocated)]>>
    IN  line("F") \o line("M")

\* the first row of df with the largest bonus
FirstLargest(df) ==
    CHOOSE i \in 1..Len(df) :
        /\ \A j \in 1..Len(df) : df[j].Bonus <= df[i].Bonus
        /\ \A j \in 1..(i - 1) : df[j].Bonus < df[i].Bonus

WithoutRow(df, i) == SubSeq(df, 1, i - 1) \o SubSeq(df, i + 1, Len(df))

\* the mutant takes the first n rows of the table
nlargest_head(df, n) == SubSeq(df, 1, IF n < Len(df) THEN n ELSE Len(df))

\* edited_df.nlargest(n, 'Bonus (€)'): the n rows with the largest bonus in
\* descending order, rows of equal bonus in their order in df (keep='first')
RECURSIVE nlargest(_, _)
nlargest(df, n) ==
    IF n = 0 \/ df = <<>> THEN <<>>
    ELSE <<df[FirstLargest(df)]>> \o nlargest(WithoutRow(df, FirstLargest(df)), n - 1)

\* the "Top 10 Bonus Recipients" table
top_recipients(edited_df, total_allocated) ==
    LET top == nlargest(edited_df, TopCount)
    IN  Tup([i \in 1..Len(top) |->
            [Fund |-> top[i].Fund, Manager |-> top[i].Manager, Bonus |-> top[i].Bonus,
             Percentage |-> pct_of_total(top[i].Bonus, total_allocated)]])

\* the mutant rejects an over-budget total: it shows the error and no figures
budget_status_rejecting(total_allocated) ==
    IF total_allocated > BUDGET THEN "rejected"
    ELSE IF total_allocated < BUDGET THEN "under"
    ELSE "exact"

\* st.error / st.warning / st.success of the budget validation
budget_status(total_allocated) ==
    IF total_allocated > BUDGET THEN "over"
    ELSE IF total_allocated < BUDGET THEN "under"
    ELSE "exact"

\* the page script from "Calculate metrics" on, for the table the editor returned
task_metrics(edited_df, funds_list, event) ==
    LET merged_df       == merge_left(edited_df, funds_list)
        total_allocated == bonus_sum(edited_df)
        num_with_bonus  == Cardinality({i \in 1..Len(edited_df) : edited_df[i].Bonus > 0})
        esg             == weighted_block(merged_df, "E_Score")
        age             == weighted_block(merged_df, "Age")
    IN  [event |-> event,
         total_allocated |-> total_allocated,
         remaining_budget |-> BUDGET - total_allocated,
         percentage_used |-> QNorm(total_allocated * 100, BUDGET),
         total_delta |-> IF total_allocated * 100 <= 100 * BUDGET
                         THEN "% of budget" ELSE "Over budget!",
         num_managers_with_bonus |-> num_with_bonus,
         total_managers |-> Len(edited_df),
         gender |-> gender_distribution(merged_df, total_allocated),
         esg |-> esg,
         good_esg |-> group_pct(esg, "E_Score", 0, GoodEsgBelow, total_allocated),
         age |-> age,
         age_groups |-> << group_pct(age, "Age", 0, 40, total_allocated),
                           group_pct(age, "Age", 40, 50, total_allocated),
                           group_pct(age, "Age", 50, 1000, total_allocated) >>,
         status |-> budget_status(total_allocated),
         top_shown |-> num_with_bonus > 0,
         top_recipients |-> IF num_with_bonus > 0
                            THEN top_recipients(edited_df, total_allocated) ELSE <<>>]

\* a run of the page in which the editor returns edited_df
run_task(edited_df, event) ==
    /\ bonus_allocations' = [has |-> TRUE, df |-> edited_df]
    /\ task_view' = task_metrics(edited_df, session_state.funds_list, event)
    /\ page' = "task"

\* the table the page hands to the editor: created on the first visit
editor_input ==
    IF bonus_allocations.has THEN bonus_allocations.df
    ELSE zero_allocations(session_state.funds_list)

Funded(df) == Cardinality({i \in 1..Len(df) : df[i].Bonus > 0})

TaskFrame ==
    UNCHANGED <<call, nav_df, min_date, max_date, recompute_from_date, display_df,
                period_locals, summary_data, metrics, files, session_state, snapshot,
                selected_fund, all_funds_data>>

\* the page is opened; without the fund table it only shows a warning
OpenTask ==
    /\ page # "task"
    /\ IF session_state.has
       THEN run_task(editor_input, IF bonus_allocations.has THEN "visit" ELSE "first visit")
       ELSE /\ page' = "task"
            /\ task_view' = [event |-> "warning"]
            /\ UNCHANGED bonus_allocations
    /\ TaskFrame

\* a bonus cell is edited and the script reruns
EditBonus ==
    /\ page = "task"
    /\ bonus_allocations.has
    /\ \E i \in 1..Len(bonus_allocations.df), a \in Amounts :
          /\ a # bonus_allocations.df[i].Bonus
          /\ \E edited_df \in {[bonus_allocations.df EXCEPT ![i].Bonus = a]} :
                /\ Funded(edited_df) <= MaxFunded
                /\ run_task(edited_df, "edit")
    /\ TaskFrame

\* "Reset All Allocations" is pressed: the run stores the zero table and calls
\* st.rerun(), and the rerun shows it
ResetAllAllocations ==
    /\ page = "task"
    /\ bonus_allocations.has
    /\ run_task(zero_allocations(session_state.funds_list), "reset")
    /\ TaskFrame

\* the series of every fund of the table, for the load
OneDay == <<[date |-> 1, nav |-> Q(100), bench |-> Q(100)]>>

TaskFiles(rows) ==
    [funds |-> rows, csv |-> Tup([i \in 1..Len(rows) |-> [key |-> rows[i].File, df |-> OneDay]])]

\* the fund tables: all the rows, or only the rows without an E Score
TaskTables ==
    { Tup([i \in 1..FundCount |-> FundRow(i)]), <<FundRow(4), FundRow(8)>> }

InitTask ==
    /\ call = NoCall
    /\ IdlePage
    /\ \E rows \in TaskTables : files = TaskFiles(rows)
    /\ session_state = NoSession
    /\ snapshot = NoSession
    /\ selected_fund = ""
    /\ all_funds_data = <<>>
    /\ IdleTask

NextTask ==
    \/ VisitDashboard
    \/ OpenTask
    \/ EditBonus
    \/ ResetAllAllocations

SpecTask == InitTask /\ [][NextTask]_vars

(***************************************************************************)
(* Claims about the Bonus Allocation page.                                 *)
(***************************************************************************)
\* the page has shown its figures for the stored allocation
Reported == task_view.event \in {"first visit", "visit", "edit", "reset"}

StoredTotal == bonus_sum(bonus_allocations.df)

\* C16: an allocation whose bonuses sum to more than BUDGET is stored as it is
\* and reported: the total shown is the sum of the stored bonuses, the remaining
\* budget shown is BUDGET minus that total and is negative, and the status is
\* "over"; for every allocation the status shown is the one of over / under /
\* exact that compares the total with BUDGET.
C16_OverBudgetReported ==
    Reported =>
        /\ bonus_allocations.has
        /\ task_view.total_allocated = StoredTotal
        /\ task_view.remaining_budget = BUDGET - StoredTotal
        /\ task_view.status \in {"over", "under", "exact"}
        /\ task_view.status = "over" <=> StoredTotal > BUDGET
        /\ task_view.status = "under" <=> StoredTotal < BUDGET
        /\ task_view.status = "exact" <=> StoredTotal = BUDGET
        /\ StoredTotal > BUDGET =>
              /\ task_view.remaining_budget < 0
              /\ task_view.total_delta = "Over budget!"

C16_Witness ==
    /\ task_view.event = "edit"
    /\ StoredTotal > BUDGET
    /\ task_view.status = "over"
    /\ task_view.remaining_budget = 0 - 1000

AllZero == \A i \in 1..Len(bonus_allocations.df) : bonus_allocations.df[i].Bonus = 0

\* the row of the fund table for the i-th entry of the stored allocation
FundRowOf(i) ==
    session_state.funds_list[CHOOSE j \in 1..Len(session_state.funds_list) :
        session_state.funds_list[j].Fund = bonus_allocations.df[i].Fund]

\* the entries with a strictly positive bonus and a numeric value of attr
Eligible(attr) ==
    {i \in 1..Len(bonus_allocations.df) :
        bonus_allocations.df[i].Bonus > 0 /\ FundRowOf(i)[attr].k = "num"}

RECURSIVE BonusOver(_)
BonusOver(S) ==
    IF S = {} THEN 0
    ELSE LET i == CHOOSE j \in S : TRUE
         IN  bonus_allocations.df[i].Bonus + BonusOver(S \ {i})

RECURSIVE WeightedOver(_, _)
WeightedOver(S, attr) ==
    IF S = {} THEN 0
    ELSE LET i == CHOOSE j \in S : TRUE
         IN  FundRowOf(i)[attr].v * bonus_allocations.df[i].Bonus + WeightedOver(S \ {i}, attr)

Block(attr) == IF attr = "E_Score" THEN task_view.esg ELSE task_view.age

\* C17 as stated: for an allocation in which every bonus is 0 the count of
\* positive bonuses is 0 and the weighted averages of E score and age are 0.
C17_AllZeroAveragesAreZero ==
    (Reported /\ AllZero) =>
        /\ task_view.num_managers_with_bonus = 0
        /\ task_view.esg.weighted_avg = Q(0)
        /\ task_view.age.weighted_avg = Q(0)

\* C17 as the page computes it: a weighted average is shown exactly when some
\* entry has a strictly positive bonus and a numeric value, it is the sum of
\* value times bonus over those entries divided by the sum of their bonuses,
\* and that sum is then positive; for an allocation in which every bonus is 0
\* the count of positive bonuses is 0, the percentage of the budget used is 0,
\* and no weighted average, no share of the total and no top table is
\* computed: the blocks show "No bonuses allocated yet" (or nothing when no
\* fund has a value), so nothing is divided by zero.
C17_NoAverageWithoutBonus ==
    Reported =>
        /\ task_view.num_managers_with_bonus =
              Cardinality({i \in 1..Len(bonus_allocations.df) : bonus_allocations.df[i].Bonus > 0})
        /\ \A attr \in {"E_Score", "Age"} :
              /\ Block(attr).shown = "values" <=> Eligible(attr) # {}
              /\ Block(attr).shown = "values" =>
                    /\ BonusOver(Eligible(attr)) > 0
                    /\ Block(attr).weighted_avg =
                          QNorm(WeightedOver(Eligible(attr), attr), BonusOver(Eligible(attr)))
              /\ Block(attr).shown # "values" => Block(attr).weighted_avg = NotComputed
        /\ AllZero =>
              /\ task_view.num_managers_with_bonus = 0
              /\ task_view.percentage_used = Q(0)
              /\ task_view.esg.shown \in {"No bonuses allocated yet", "nothing"}
              /\ task_view.age.shown \in {"No bonuses allocated yet", "nothing"}
              /\ task_view.good_esg = NotComputed
              /\ \A g \in 1..3 : task_view.age_groups[g] = NotComputed
              /\ task_view.gender = <<>>
              /\ ~task_view.top_shown
              /\ task_view.top_recipients = <<>>

C17_Witness ==
    /\ task_view.event = "reset"
    /\ AllZero
    /\ task_view.esg.shown = "No bonuses allocated yet"
    /\ task_view.age.shown = "No bonuses allocated yet"
    /\ task_view.esg.weighted_avg = NotComputed

Top == task_view.top_recipients

\* the place in the stored allocation of the k-th entry of the top table
InputIndex(k) ==
    CHOOSE i \in 1..Len(bonus_allocations.df) : bonus_allocations.df[i].Fund = Top[k].Fund

Listed == {InputIndex(k) : k \in 1..Len(Top)}

\* C18: the top table lists at most TopCount entries of the allocation (all of
\* them when there are fewer), in descending order of bonus, entries of equal
\* bonus in their input order; no entry left out has a bonus strictly greater
\* than a listed one; the percentage of a listed entry is its bonus divided by
\* the total allocated, which is positive whenever the table is shown.
C18_TopTable ==
    (Reported /\ task_view.top_shown) =>
        /\ Len(Top) <= TopCount
        /\ Len(Top) = IF Len(bonus_allocations.df) < TopCount
                      THEN Len(bonus_allocations.df) ELSE TopCount
        /\ Cardinality(Listed) = Len(Top)
        /\ \A k \in 1..Len(Top) :
              /\ Top[k].Bonus = bonus_allocations.df[InputIndex(k)].Bonus
              /\ Top[k].Manager = bonus_allocations.df[InputIndex(k)].Manager
              /\ Top[k].Percentage = QNorm(Top[k].Bonus * 100, StoredTotal)
              /\ \A l \in (k + 1)..Len(Top) :
                    /\ Top[k].Bonus >= Top[l].Bonus
                    /\ Top[k].Bonus = Top[l].Bonus => InputIndex(k) < InputIndex(l)
              /\ \A i \in (1..Len(bonus_allocations.df)) \ Listed :
                    bonus_allocations.df[i].Bonus <= Top[k].Bonus
        /\ StoredTotal > 0

\* ten entries listed and one left out, two equal positive bonuses among them
\* with a larger bonus later in the input
C18_Witness ==
    /\ Reported /\ task_view.top_shown
    /\ Len(Top) = TopCount
    /\ Len(bonus_allocations.df) > TopCount
    /\ Top[2].Bonus = Top[3].Bonus /\ Top[2].Bonus > 0
    /\ InputIndex(1) > InputIndex(3)

\* the i-th entry of the stored allocation is the i-th row of the fund table
EntryOfRow(i) ==
    /\ bonus_allocations.df[i].Fund = session_state.funds_list[i].Fund
    /\ bonus_allocations.df[i].Manager = session_state.funds_list[i].Manager

\* C19: after a reset, as after the first visit, the allocation has exactly one
\* entry per row of the fund table, in the order of the table, with the row's
\* fund and manager and a bonus of 0; and whatever was edited, the stored
\* allocation keeps that number of entries, their order, and every fund and
\* manager value: only bonus amounts differ.
C19_ResetRestoresInitial ==
    bonus_allocations.has =>
        /\ DOMAIN bonus_allocations.df = 1..Len(session_state.funds_list)
        /\ \A i \in 1..Len(bonus_allocations.df) :
              /\ EntryOfRow(i)
              /\ DOMAIN bonus_allocations.df[i] = {"Fund", "Manager", "Bonus"}
              /\ bonus_allocations.df[i].Bonus >= 0
              /\ task_view.event \in {"reset", "first visit"} =>
                    bonus_allocations.df[i].Bonus = 0

C19_Witness ==
    /\ task_view.event = "reset"
    /\ Len(bonus_allocations.df) = FundCount
    /\ \A i \in 1..FundCount : EntryOfRow(i) /\ bonus_allocations.df[i].Bonus = 0

====
